---- MODULE Spec2Model ----
(***************************************************************************)
(* A model of pullMSKStats.py: the per-section reporting pipeline of main  *)
(* and process_aws_account (list the active clusters, one report row per   *)
(* broker node, a cost total, one workbook per section), with get_metric   *)
(* and get_clusters_info as the operators the pipeline applies.            *)
(*                                                                         *)
(* Strings the program only copies are TLA+ strings.  Strings it builds    *)
(* by formatting are sequences of their pieces: a file path and a config   *)
(* section name are sequences of characters, a column label is the         *)
(* sequence of the pieces the format puts together.                        *)
(***************************************************************************)
EXTENDS Integers, Sequences, FiniteSets, TLC

VARIABLES
    config,         \* config.sections() with each section's region, in file order
    dir_exists,     \* os.path.isdir(options.outDir)
    sec,            \* the index in config of the section main is at (0: none yet)
    pc,             \* the statement the program is at
    listing,        \* the pages the account's list_clusters paginator yields
    cloud_watch,    \* the account's CloudWatch: the data points it answers per Period
    clusters_info,  \* process_aws_account's clusters_info
    cluster_df,     \* process_aws_account's cluster_df
    i,              \* write_cluster_info's row counter
    queries,        \* per row written, the get_metric_statistics requests sent for it
    pricing_data,   \* what get_cost_and_usage answered (empty before the call)
    writer,         \* the ExcelWriter: its path and the sheets handed to it
    files,           \* the output directory: path -> what writer.save() put there
    attempted,      \* the sections process_aws_account was called for
    raised,         \* the remote call whose exception ended the run (empty: none)
    exit_status,    \* the process's exit status once pc = "exit"
    metric_call,    \* a get_metric call: its arguments and the provider's answer
    metric_ret      \* what that call returned (empty before it returns)

vars == <<config, dir_exists, sec, pc, listing, cloud_watch, clusters_info,
          cluster_df, i, queries, pricing_data, writer, files, attempted,
          raised, exit_status, metric_call, metric_ret>>

mainVars == <<config, dir_exists, sec, pc, listing, cloud_watch, clusters_info,
              cluster_df, i, queries, pricing_data, writer, files, attempted,
              raised, exit_status>>

metricVars == <<metric_call, metric_ret>>

(***************************************************************************)
(* Bounds of the model.                                                    *)
(***************************************************************************)
MaxSections == 2      \* sections in the configuration file
MaxPages == 2         \* pages of one cluster listing
MaxListed == 2        \* clusters in one listing, over all its pages
MaxBrokers == 2       \* broker nodes of one cluster
MaxDatapoints == 2    \* data points in one get_metric_statistics answer
MaxAverage == 2       \* an 'Average' lies in -MaxAverage .. MaxAverage
MaxResults == 2       \* entries of ResultsByTime in one cost answer

(***************************************************************************)
(* Program constants.                                                      *)
(***************************************************************************)
METRIC_COLLECTION_PERIOD_DAYS == 7

AGGREGATION_DURATION_SECONDS == 3600

get_average_metrics ==
    <<"BytesInPerSec", "BytesOutPerSec", "MessagesInPerSec", "CpuUser">>

get_peak_metrics ==
    <<"BytesInPerSec", "BytesOutPerSec", "MessagesInPerSec", "CpuUser",
      "ConnectionCount", "PartitionCount", "GlobalTopicCount",
      "EstimatedMaxTimeLag", "LeaderCount", "ReplicationBytesOutPerSec",
      "ReplicationBytesInPerSec", "MemoryFree", "MemoryUsed">>

(***************************************************************************)
(* Helpers: sequences and Python's insertion-ordered dict, which is a      *)
(* sequence of [key, value] entries with no key twice.                     *)
(***************************************************************************)
Range(s) == {s[k] : k \in DOMAIN s}

SeqsUpTo(S, n) == UNION {[1..k -> S] : k \in 0..n}

DictKeys(d) == [k \in DOMAIN d |-> d[k].key]

DictHas(d, key) == \E k \in DOMAIN d : d[k].key = key

DictGet(d, key) == d[CHOOSE k \in DOMAIN d : d[k].key = key].value

\* d[key] = value: a key already there keeps its place, a new key goes last.
DictSet(d, key, value) ==
    IF DictHas(d, key)
    THEN [k \in DOMAIN d |->
             IF d[k].key = key THEN [key |-> key, value |-> value] ELSE d[k]]
    ELSE Append(d, [key |-> key, value |-> value])

RECURSIVE SumSeq(_)
SumSeq(s) == IF s = <<>> THEN 0 ELSE s[1] + SumSeq(Tail(s))

RECURSIVE Flatten(_)
Flatten(ss) == IF ss = <<>> THEN <<>> ELSE ss[1] \o Flatten(Tail(ss))

(***************************************************************************)
(* The provider's cluster records (the fields the program reads), and the  *)
(* listings list_clusters can answer: up to MaxPages pages, empty pages    *)
(* included, holding up to MaxListed records in all.                       *)
(***************************************************************************)
ClusterNames == {"a", "b"}

ClusterStates == {"ACTIVE", "DELETING"}

InstanceTypeOf(name) == IF name = "a" THEN "kafka.m5.large" ELSE "kafka.t3.small"

KafkaVersionOf(name) == IF name = "a" THEN "2.8.1" ELSE "3.5.1"

Instance(name, state, brokers) ==
    [ClusterName |-> name,
     State |-> state,
     NumberOfBrokerNodes |-> brokers,
     BrokerNodeGroupInfo |-> [InstanceType |-> InstanceTypeOf(name)],
     CurrentBrokerSoftwareInfo |-> [KafkaVersion |-> KafkaVersionOf(name)]]

\* A cluster that is not ACTIVE is listed with one broker count only; the
\* program reads no field of it but its State.
Instances ==
    {Instance(n, "ACTIVE", b) : n \in ClusterNames, b \in 1..MaxBrokers}
        \cup {Instance(n, s, 1) : n \in ClusterNames, s \in ClusterStates \ {"ACTIVE"}}

Page(instances) == [ClusterInfoList |-> instances]

\* The ways to cut n records into p consecutive pages: the page sizes.
PageSizes(p, n) == {sz \in [1..p -> 0..n] : SumSeq(sz) = n}

\* flat cut into pages of the sizes sz.
Paginate(flat, sz) ==
    [k \in DOMAIN sz |->
        Page(SubSeq(flat, SumSeq(SubSeq(sz, 1, k - 1)) + 1, SumSeq(SubSeq(sz, 1, k))))]

ListingsOf(maxPages, maxListed, insts) ==
    UNION {{Paginate(flat, sz) : sz \in PageSizes(p, Len(flat))} :
              flat \in SeqsUpTo(insts, maxListed), p \in 0..maxPages}

Listings == ListingsOf(MaxPages, MaxListed, Instances)

\* The records of a listing, in the order the pages give them.
Listed(pages) == Flatten([k \in DOMAIN pages |-> pages[k].ClusterInfoList])

(***************************************************************************)
(* get_clusters_info: every page of the paginator, every record of a page, *)
(* the ACTIVE ones kept under their ClusterName.                           *)
(***************************************************************************)
AddInstanceUnfiltered(results, instance) ==
    DictSet(results, instance.ClusterName, instance)

\* lines 84-86: one record of a page.
AddInstance(results, instance) ==
    IF instance.State = "ACTIVE"
    THEN DictSet(results, instance.ClusterName, instance)
    ELSE results

RECURSIVE AddInstances(_, _)
\* lines 83-86: the records of one page, in order.
AddInstances(results, instances) ==
    IF instances = <<>>
    THEN results
    ELSE AddInstances(AddInstance(results, instances[1]), Tail(instances))

RECURSIVE AddPages(_, _)
\* lines 82-86: the pages, in order.
AddPages(results, pages) ==
    IF pages = <<>>
    THEN results
    ELSE AddPages(AddInstances(results, pages[1].ClusterInfoList), Tail(pages))

get_clusters_info(pages) == [msk_running_instances |-> AddPages(<<>>, pages)]

(***************************************************************************)
(* get_metric.  A date is a day number counted from today (today is 0).    *)
(* The provider's answer to a request is what cw holds for its Period.     *)
(***************************************************************************)
Averages == (0 - MaxAverage)..MaxAverage

Datapoint(a) == [Average |-> a]

DatapointSeqs == SeqsUpTo({Datapoint(a) : a \in Averages}, MaxDatapoints)

\* lines 101-103: the aggregation bucket.
MetricPeriod(is_peak, time_period) ==
    IF ~is_peak
    THEN AGGREGATION_DURATION_SECONDS * 24 * time_period
    ELSE AGGREGATION_DURATION_SECONDS

Periods ==
    {MetricPeriod(TRUE, METRIC_COLLECTION_PERIOD_DAYS),
     MetricPeriod(FALSE, METRIC_COLLECTION_PERIOD_DAYS)}

\* lines 98-129: the get_metric_statistics request.
MetricRequest(cluster_id, node, metric, is_peak, time_period) ==
    [Namespace |-> "AWS/Kafka",
     MetricName |-> metric,
     Dimensions |->
        IF metric # "GlobalTopicCount"
        THEN <<[Name |-> "Cluster Name", Value |-> cluster_id],
               [Name |-> "Broker ID", Value |-> ToString(node)]>>
        ELSE <<[Name |-> "Cluster Name", Value |-> cluster_id]>>,
     StartTime |-> (0 + 1) - time_period,
     EndTime |-> 0 + 1,
     Period |-> MetricPeriod(is_peak, time_period),
     Statistics |-> <<"Average">>]

\* cloud_watch.get_metric_statistics(...): the provider's answer.
GetMetricStatistics(cw, request) == [Datapoints |-> cw[request.Period]]

\* lines 133-134: one data point.
RecMaxStep(rec_max, rec) == IF rec.Average > rec_max THEN rec.Average ELSE rec_max

RECURSIVE RecMaxFrom(_, _)
\* lines 132-134: the data points, in order.
RecMaxFrom(rec_max, datapoints) ==
    IF datapoints = <<>>
    THEN rec_max
    ELSE RecMaxFrom(RecMaxStep(rec_max, datapoints[1]), Tail(datapoints))

RecMaxUnset(datapoints) == RecMaxFrom(0 - 1, datapoints)

\* lines 131-136.
RecMax(datapoints) == RecMaxFrom(0, datapoints)

get_metric(cw, cluster_id, node, metric, is_peak) ==
    RecMax(GetMetricStatistics(cw,
               MetricRequest(cluster_id, node, metric, is_peak,
                             METRIC_COLLECTION_PERIOD_DAYS)).Datapoints)

(***************************************************************************)
(* The data frame: its column labels and its rows; row k of rows has the   *)
(* index label k - 1.  A label made by '%s (avg over last week)' % metric  *)
(* is the pair of the metric and the text after it.                        *)
(***************************************************************************)
AvgLabel(metric) == <<metric, " (avg over last week)">>

PeakLabel(metric) == <<metric, " (max over last week)">>

FixedColumns ==
    <<<<"Region">>, <<"ClusterName">>, <<"NodeId">>, <<"NodeType">>, <<"KafkaVersion">>>>

\* lines 145-151.
create_data_frame ==
    [columns |-> FixedColumns
                 \o [k \in DOMAIN get_average_metrics |-> AvgLabel(get_average_metrics[k])]
                 \o [k \in DOMAIN get_peak_metrics |-> PeakLabel(get_peak_metrics[k])],
     rows |-> <<>>]

\* df.loc[idx] = row can be done: pandas raises ValueError for a row that has
\* not one value per column.
LocSetOk(df, row) == Len(row) = Len(df.columns)

\* df.loc[idx] = row: an index label there is overwritten, the next one appended.
LocSet(df, idx, row) ==
    IF idx < Len(df.rows)
    THEN [df EXCEPT !.rows[idx + 1] = row]
    ELSE [df EXCEPT !.rows = Append(df.rows, row)]

(***************************************************************************)
(* write_cluster_info's loop: the (cluster, node) pairs in the order the   *)
(* two for statements visit them, and the row of one pair.                 *)
(***************************************************************************)
NodeIdsExclusive(running_instances, k) ==
    [n \in 1..(running_instances[k].value.NumberOfBrokerNodes - 1) |->
        [instanceId |-> running_instances[k].key,
         instanceDetails |-> running_instances[k].value,
         nodeId |-> n]]

\* line 166: range(1, NumberOfBrokerNodes + 1) of the k-th cluster.
NodeIds(running_instances, k) ==
    [n \in 1..running_instances[k].value.NumberOfBrokerNodes |->
        [instanceId |-> running_instances[k].key,
         instanceDetails |-> running_instances[k].value,
         nodeId |-> n]]

\* lines 165-166.
RowPairs(running_instances) ==
    Flatten([k \in DOMAIN running_instances |-> NodeIds(running_instances, k)])

Call(metric, is_peak) == [metric |-> metric, is_peak |-> is_peak]

RowCallsPeakFirst ==
    [k \in DOMAIN get_peak_metrics |-> Call(get_peak_metrics[k], TRUE)]
    \o [k \in DOMAIN get_average_metrics |-> Call(get_average_metrics[k], FALSE)]

\* lines 181-197: the get_metric calls of one row, in order.
RowCalls ==
    [k \in DOMAIN get_average_metrics |-> Call(get_average_metrics[k], FALSE)]
    \o [k \in DOMAIN get_peak_metrics |-> Call(get_peak_metrics[k], TRUE)]

\* lines 98-129 for each of them: the requests the row's calls send.
RowRequests(instanceId, nodeId) ==
    [k \in DOMAIN RowCalls |->
        MetricRequest(instanceId, nodeId, RowCalls[k].metric, RowCalls[k].is_peak,
                      METRIC_COLLECTION_PERIOD_DAYS)]

\* lines 169-173: "%s" % value of the five leading cells.
RowHead(region, pair) ==
    <<region, pair.instanceId, ToString(pair.nodeId),
      pair.instanceDetails.BrokerNodeGroupInfo.InstanceType,
      pair.instanceDetails.CurrentBrokerSoftwareInfo.KafkaVersion>>

\* lines 169-197: the row of one pair.
BuildRow(cw, region, pair) ==
    RowHead(region, pair)
    \o [k \in DOMAIN RowCalls |->
           get_metric(cw, pair.instanceId, pair.nodeId,
                      RowCalls[k].metric, RowCalls[k].is_peak)]

(***************************************************************************)
(* The configuration file and the output path.                             *)
(***************************************************************************)
SectionNames == {<<"a">>, <<"a", "-", "b">>, <<"b">>}

Regions == {<<"c">>, <<"b", "-", "c">>}

Sections == [name : SectionNames, region : Regions]

\* ConfigParser keeps one section per name.
Configs ==
    {c \in SeqsUpTo(Sections, MaxSections) :
        \A j, k \in DOMAIN c : j # k => c[j].name # c[k].name}

\* line 285: the default of --out-dir.
outDir == <<".">>

\* line 260: "%s/%s-%s.xlsx" % (options.outDir, section, region).
OutputFilePath(dir, section, region) ==
    dir \o <<"/">> \o section \o <<"-">> \o region \o <<".", "x", "l", "s", "x">>

(***************************************************************************)
(* get_costs.  An Amount is a decimal numeral, the sequence of its digits; *)
(* float() of it is its value.                                             *)
(***************************************************************************)
DigitValue(d) ==
    CASE d = "0" -> 0 [] d = "1" -> 1 [] d = "2" -> 2 [] d = "3" -> 3 [] d = "4" -> 4
      [] d = "5" -> 5 [] d = "6" -> 6 [] d = "7" -> 7 [] d = "8" -> 8 [] d = "9" -> 9

RECURSIVE float(_)
float(numeral) ==
    IF numeral = <<>>
    THEN 0
    ELSE 10 * float(SubSeq(numeral, 1, Len(numeral) - 1)) + DigitValue(numeral[Len(numeral)])

Amounts == {<<"7">>, <<"1", "2">>}

ResultByTime(amount) == [Total |-> [UnblendedCost |-> [Amount |-> amount]]]

PricingResponses ==
    {[ResultsByTime |-> r] : r \in SeqsUpTo({ResultByTime(a) : a \in Amounts}, MaxResults)}

RECURSIVE CostsFrom(_, _)
\* lines 241-242.
CostsFrom(costs, results) ==
    IF results = <<>>
    THEN costs
    ELSE CostsFrom(costs + float(results[1].Total.UnblendedCost.Amount), Tail(results))

get_costs_last(pricing) ==
    IF pricing.ResultsByTime = <<>>
    THEN 0
    ELSE float(pricing.ResultsByTime[Len(pricing.ResultsByTime)].Total.UnblendedCost.Amount)

\* lines 240-244.
get_costs(pricing) == CostsFrom(0, pricing.ResultsByTime)

\* lines 274-275: pd.DataFrame({'costs': [costs]}).
CostsFrame(costs) == [columns |-> <<<<"costs">>>>, rows |-> <<<<costs>>>>]

\* df.to_excel(writer, sheet_name, index=index).
ToExcel(w, df, sheet_name, index) ==
    [w EXCEPT !.sheets = DictSet(w.sheets, sheet_name, [df |-> df, index |-> index])]

\* pd.ExcelWriter(path): nothing is on disk before save().
ExcelWriter(path) == [path |-> path, sheets |-> <<>>]

\* writer.save(): the file at the writer's path is replaced.  Of a file the
\* model keeps the section that wrote it and the names of its sheets, in order.
SaveFile(fs, w, section) ==
    (w.path :> [section |-> section, sheets |-> DictKeys(w.sheets)]) @@ fs

(***************************************************************************)
(* The accounts a section's session can be opened on.                      *)
(***************************************************************************)
\* An account with no data at all, and one with two hourly buckets, which
\* make one bucket when the Period is the whole window.
CloudWatches ==
    {[p \in Periods |-> <<>>],
     [p \in Periods |->
        IF p = AGGREGATION_DURATION_SECONDS
        THEN <<Datapoint(1), Datapoint(2)>>
        ELSE <<Datapoint(1)>>]}

MainListings ==
    {<<>>,
     <<Page(<<Instance("a", "ACTIVE", 1)>>)>>,
     <<Page(<<Instance("b", "ACTIVE", 2)>>), Page(<<Instance("a", "DELETING", 1)>>)>>}

NoClusters == [msk_running_instances |-> <<>>]

(***************************************************************************)
(* main and process_aws_account.                                           *)
(***************************************************************************)
\* lines 296-264: the next section; the output directory is made if missing,
\* the session, the writer and the empty data frame are created.
StartSection ==
    /\ pc = "main"
    /\ sec < Len(config)
    /\ \E l \in MainListings, cw \in CloudWatches :
          /\ listing' = l
          /\ cloud_watch' = cw
    /\ dir_exists' = TRUE
    /\ sec' = sec + 1
    /\ attempted' = Append(attempted, sec + 1)
    /\ writer' = ExcelWriter(OutputFilePath(outDir, config[sec + 1].name,
                                            config[sec + 1].region))
    /\ cluster_df' = create_data_frame
    /\ clusters_info' = NoClusters
    /\ i' = 0
    /\ queries' = <<>>
    /\ pricing_data' = <<>>
    /\ pc' = "get_clusters_info"
    /\ UNCHANGED <<config, files, raised, exit_status, metricVars>>

\* line 296: no section is left; main returns.
MainReturn ==
    /\ pc = "main"
    /\ sec = Len(config)
    /\ pc' = "exit"
    /\ exit_status' = 0
    /\ UNCHANGED <<config, dir_exists, sec, listing, cloud_watch, clusters_info,
                   cluster_df, i, queries, pricing_data, writer, files, attempted,
                   raised, metricVars>>

CaughtByMain(call) ==
    /\ raised' = <<call>>
    /\ pc' = "main"
    /\ UNCHANGED <<config, dir_exists, sec, listing, cloud_watch, clusters_info,
                   cluster_df, i, queries, pricing_data, writer, files, attempted,
                   exit_status, metricVars>>

\* An exception no frame catches: the traceback is printed, the process ends.
Uncaught(call) ==
    /\ raised' = <<call>>
    /\ pc' = "exit"
    /\ exit_status' = 1
    /\ UNCHANGED <<config, dir_exists, sec, listing, cloud_watch, clusters_info,
                   cluster_df, i, queries, pricing_data, writer, files, attempted,
                   metricVars>>

\* line 267.
GetClustersInfo ==
    /\ pc = "get_clusters_info"
    /\ clusters_info' = get_clusters_info(listing)
    /\ pc' = "write_cluster_info"
    /\ UNCHANGED <<config, dir_exists, sec, listing, cloud_watch, cluster_df, i,
                   queries, pricing_data, writer, files, attempted, raised,
                   exit_status, metricVars>>

\* lines 78-82: the paginator's call raises.
GetClustersInfoRaises ==
    /\ pc = "get_clusters_info"
    /\ Uncaught("list_clusters")

\* lines 166-200: one pass of the inner loop.
WriteRow ==
    /\ pc = "write_cluster_info"
    /\ i < Len(RowPairs(clusters_info.msk_running_instances))
    /\ LET running_instances == clusters_info.msk_running_instances
           pair == RowPairs(running_instances)[i + 1]
           row == BuildRow(cloud_watch, config[sec].region, pair)
       IN  IF LocSetOk(cluster_df, row)
           THEN /\ cluster_df' = LocSet(cluster_df, i, row)
                /\ i' = i + 1
                /\ queries' = Append(queries, RowRequests(pair.instanceId, pair.nodeId))
                /\ UNCHANGED <<pc, raised, exit_status>>
           ELSE /\ raised' = <<"ValueError">>
                /\ pc' = "exit"
                /\ exit_status' = 1
                /\ UNCHANGED <<cluster_df, i, queries>>
    /\ UNCHANGED <<config, dir_exists, sec, listing, cloud_watch, clusters_info,
                   pricing_data, writer, files, attempted, metricVars>>

\* lines 106-129: a metric query of the pass raises.
WriteRowRaises ==
    /\ pc = "write_cluster_info"
    /\ i < Len(RowPairs(clusters_info.msk_running_instances))
    /\ Uncaught("get_metric_statistics")

\* line 202: the loop is over; sort_values returns a sorted copy, which is
\* dropped, and cluster_df is as the loop left it.
WriteClusterInfoReturn ==
    /\ pc = "write_cluster_info"
    /\ i = Len(RowPairs(clusters_info.msk_running_instances))
    /\ pc' = "to_excel"
    /\ UNCHANGED <<config, dir_exists, sec, listing, cloud_watch, clusters_info,
                   cluster_df, i, queries, pricing_data, writer, files, attempted,
                   raised, exit_status, metricVars>>

\* line 271.
ClusterDataToExcel ==
    /\ pc = "to_excel"
    /\ writer' = ToExcel(writer, cluster_df, "ClusterData", TRUE)
    /\ pc' = "get_costs"
    /\ UNCHANGED <<config, dir_exists, sec, listing, cloud_watch, clusters_info,
                   cluster_df, i, queries, pricing_data, files, attempted, raised,
                   exit_status, metricVars>>

\* lines 273-276.
GetCosts ==
    /\ pc = "get_costs"
    /\ \E answer \in PricingResponses :
          /\ pricing_data' = <<answer>>
          /\ writer' = ToExcel(writer, CostsFrame(get_costs(answer)), "Costs", FALSE)
    /\ pc' = "save"
    /\ UNCHANGED <<config, dir_exists, sec, listing, cloud_watch, clusters_info,
                   cluster_df, i, queries, files, attempted, raised, exit_status,
                   metricVars>>

\* lines 230-238: get_cost_and_usage raises.
GetCostsRaises ==
    /\ pc = "get_costs"
    /\ Uncaught("get_cost_and_usage")

\* line 278, and back to the for statement of main.
Save ==
    /\ pc = "save"
    /\ files' = SaveFile(files, writer, sec)
    /\ pc' = "main"
    /\ UNCHANGED <<config, dir_exists, sec, listing, cloud_watch, clusters_info,
                   cluster_df, i, queries, pricing_data, writer, attempted, raised,
                   exit_status, metricVars>>

\* lines 293-294: the configuration is read; nothing is written yet.
Init ==
    /\ config \in Configs
    /\ dir_exists \in BOOLEAN
    /\ sec = 0
    /\ pc = "main"
    /\ listing = <<>>
    /\ cloud_watch = [p \in Periods |-> <<>>]
    /\ clusters_info = NoClusters
    /\ cluster_df = create_data_frame
    /\ i = 0
    /\ queries = <<>>
    /\ pricing_data = <<>>
    /\ writer = ExcelWriter(<<>>)
    /\ files = <<>>
    /\ attempted = <<>>
    /\ raised = <<>>
    /\ exit_status = 0
    /\ metric_call = <<>>
    /\ metric_ret = <<>>

Next ==
    \/ StartSection
    \/ MainReturn
    \/ GetClustersInfo
    \/ GetClustersInfoRaises
    \/ WriteRow
    \/ WriteRowRaises
    \/ WriteClusterInfoReturn
    \/ ClusterDataToExcel
    \/ GetCosts
    \/ GetCostsRaises
    \/ Save

Spec == Init /\ [][Next]_vars

(***************************************************************************)
(* The cluster half of one section, over every listing within the bounds:  *)
(* process_aws_account of a section from its call of get_clusters_info to  *)
(* the cluster sheet.                                                      *)
(***************************************************************************)
OneSection == [name |-> <<"a">>, region |-> <<"c">>]

InitClusters ==
    /\ config = <<OneSection>>
    /\ dir_exists = TRUE
    /\ sec = 1
    /\ pc = "get_clusters_info"
    /\ listing \in Listings
    /\ cloud_watch \in CloudWatches
    /\ clusters_info = NoClusters
    /\ cluster_df = create_data_frame
    /\ i = 0
    /\ queries = <<>>
    /\ pricing_data = <<>>
    /\ writer = ExcelWriter(OutputFilePath(outDir, OneSection.name, OneSection.region))
    /\ files = <<>>
    /\ attempted = <<1>>
    /\ raised = <<>>
    /\ exit_status = 0
    /\ metric_call = <<>>
    /\ metric_ret = <<>>

NextClusters ==
    \/ GetClustersInfo
    \/ WriteRow
    \/ WriteClusterInfoReturn
    \/ ClusterDataToExcel

SpecClusters == InitClusters /\ [][NextClusters]_vars

(***************************************************************************)
(* get_metric as a function of its arguments and the provider's answer.    *)
(***************************************************************************)
MetricCalls ==
    [cluster_id : ClusterNames,
     node : 1..MaxBrokers,
     metric : Range(get_peak_metrics),
     is_peak : BOOLEAN,
     Datapoints : DatapointSeqs]

\* lines 91-136: the call returns.
GetMetric ==
    /\ metric_call # <<>>
    /\ metric_ret = <<>>
    /\ LET c == metric_call[1]
           cw == [p \in Periods |-> c.Datapoints]
       IN  metric_ret' =
               <<[request |-> MetricRequest(c.cluster_id, c.node, c.metric, c.is_peak,
                                            METRIC_COLLECTION_PERIOD_DAYS),
                  value |-> get_metric(cw, c.cluster_id, c.node, c.metric, c.is_peak)]>>
    /\ UNCHANGED <<mainVars, metric_call>>

InitMetric ==
    /\ config = <<>>
    /\ dir_exists = TRUE
    /\ sec = 0
    /\ pc = "main"
    /\ listing = <<>>
    /\ cloud_watch = [p \in Periods |-> <<>>]
    /\ clusters_info = NoClusters
    /\ cluster_df = create_data_frame
    /\ i = 0
    /\ queries = <<>>
    /\ pricing_data = <<>>
    /\ writer = ExcelWriter(<<>>)
    /\ files = <<>>
    /\ attempted = <<>>
    /\ raised = <<>>
    /\ exit_status = 0
    /\ \E c \in MetricCalls : metric_call = <<c>>
    /\ metric_ret = <<>>

NextMetric == GetMetric

SpecMetric == InitMetric /\ [][NextMetric]_vars

(***************************************************************************)
(* Properties.                                                             *)
(***************************************************************************)
MaxOf(S) == CHOOSE x \in S : \A y \in S : y <= x

AverageValues(datapoints) == {datapoints[k].Average : k \in DOMAIN datapoints}

Returned == metric_call # <<>> /\ metric_ret # <<>>

\* C1: a get_metric call whose answer holds at least one data point returns
\* the greatest 'Average' of the data points, also when all are below zero.
C1_ReturnsMaxAverage ==
    (Returned /\ metric_call[1].Datapoints # <<>>)
        => metric_ret[1].value = MaxOf(AverageValues(metric_call[1].Datapoints))

\* C8: a get_metric call whose answer holds no data point returns exactly 0,
\* whatever the cluster, the node, the metric and the peak flag are.
C8_NoDatapointsGivesZero ==
    (Returned /\ metric_call[1].Datapoints = <<>>) => metric_ret[1].value = 0

C8_Witness ==
    /\ Returned
    /\ metric_call[1].Datapoints = <<>>
    /\ metric_call[1].metric = "GlobalTopicCount"
    /\ ~metric_call[1].is_peak
    /\ metric_ret[1].value = 0

(* get_clusters_info has returned. *)
Listed_ == Listed(listing)

ActiveListed == {k \in DOMAIN Listed_ : Listed_[k].State = "ACTIVE"}

ClustersKnown == pc \in {"write_cluster_info", "to_excel", "get_costs", "save"}

\* C3: get_clusters_info follows every page and returns exactly the ACTIVE
\* clusters, keyed by cluster name: the keys are the names of the ACTIVE
\* records of all pages, each once; the record under a name is the ACTIVE
\* record of that name the listing gives last; no record of another state is
\* in the result, and no error is raised.
C3_ExactlyActiveClusters ==
    ClustersKnown =>
        LET running == clusters_info.msk_running_instances
        IN  /\ Range(DictKeys(running)) = {Listed_[k].ClusterName : k \in ActiveListed}
            /\ \A j, k \in DOMAIN running : j # k => running[j].key # running[k].key
            /\ \A k \in DOMAIN running :
                  /\ running[k].value.State = "ACTIVE"
                  /\ running[k].value.ClusterName = running[k].key
                  /\ \E a \in ActiveListed :
                        /\ Listed_[a] = running[k].value
                        /\ \A b \in ActiveListed :
                              Listed_[b].ClusterName = running[k].key => b <= a
            /\ raised = <<>>

C3_Witness ==
    /\ ClustersKnown
    /\ Len(listing) = 2
    /\ Len(listing[2].ClusterInfoList) = 1
    /\ listing[2].ClusterInfoList[1].State = "ACTIVE"
    /\ listing[1].ClusterInfoList # <<>>
    /\ listing[1].ClusterInfoList[1].State = "DELETING"
    /\ DictKeys(clusters_info.msk_running_instances)
          = <<listing[2].ClusterInfoList[1].ClusterName>>

(* The cluster sheet as handed to the writer. *)
SheetWritten == DictHas(writer.sheets, "ClusterData")

SheetRows == DictGet(writer.sheets, "ClusterData").df.rows

SheetColumns == DictGet(writer.sheets, "ClusterData").df.columns

\* C4: the cluster sheet holds exactly one row per (active cluster, broker
\* node): a cluster with N nodes has N rows, with the node ids 1..N each once
\* and the section's region and the cluster's name, instance type and version;
\* there is no other row, and no row at all when no cluster is active.
C4_OneRowPerClusterNode ==
    SheetWritten =>
        LET running == clusters_info.msk_running_instances
            RowsOf(k, n) == {r \in DOMAIN SheetRows :
                                /\ SheetRows[r][2] = running[k].key
                                /\ SheetRows[r][3] = ToString(n)}
        IN  /\ \A k \in DOMAIN running :
                  \A n \in 1..running[k].value.NumberOfBrokerNodes :
                      /\ Cardinality(RowsOf(k, n)) = 1
                      /\ \A r \in RowsOf(k, n) :
                            /\ SheetRows[r][1] = config[sec].region
                            /\ SheetRows[r][4] =
                                  running[k].value.BrokerNodeGroupInfo.InstanceType
                            /\ SheetRows[r][5] =
                                  running[k].value.CurrentBrokerSoftwareInfo.KafkaVersion
            /\ Len(SheetRows) =
                  SumSeq([k \in DOMAIN running |-> running[k].value.NumberOfBrokerNodes])
            /\ (ActiveListed = {} => SheetRows = <<>>)

C4_Witness ==
    /\ SheetWritten
    /\ Len(clusters_info.msk_running_instances) = 2
    /\ clusters_info.msk_running_instances[1].value.NumberOfBrokerNodes = 2
    /\ Len(SheetRows) = 3
    /\ SheetRows[2][3] = "2"
    /\ SheetRows[3][3] = "1"

(* What a column of the header promises: the metric and the policy. *)
ExpectedMetricColumns ==
    [k \in DOMAIN get_average_metrics |-> AvgLabel(get_average_metrics[k])]
    \o [k \in DOMAIN get_peak_metrics |-> PeakLabel(get_peak_metrics[k])]

PeriodOfColumn(label) ==
    IF label[2] = " (avg over last week)"
    THEN AGGREGATION_DURATION_SECONDS * 24 * METRIC_COLLECTION_PERIOD_DAYS
    ELSE AGGREGATION_DURATION_SECONDS

\* Every row has one value per header column, and the value under a metric
\* column is the answer to a query for that column's metric and policy.
RowsFollow(columns, leading) ==
    /\ Len(queries) = Len(cluster_df.rows)
    /\ \A r \in DOMAIN cluster_df.rows :
          /\ Len(cluster_df.rows[r]) = Len(columns)
          /\ Len(queries[r]) = Len(columns) - leading
          /\ \A k \in DOMAIN queries[r] :
                /\ queries[r][k].MetricName = columns[leading + k][1]
                /\ queries[r][k].Period = PeriodOfColumn(columns[leading + k])
                /\ cluster_df.rows[r][leading + k] =
                      RecMax(cloud_watch[queries[r][k].Period])

NameRank(name) == IF name = "a" THEN 1 ELSE 2

NodeIdOf(cell) == CHOOSE n \in 1..(MaxBrokers + 1) : ToString(n) = cell

RowLeq(r1, r2) ==
    \/ NameRank(r1[2]) < NameRank(r2[2])
    \/ (r1[2] = r2[2] /\ NodeIdOf(r1[3]) <= NodeIdOf(r2[3]))

\* C10: the rows of the cluster table written to the workbook are ordered by
\* cluster name and, within a cluster, by node id, whatever the order of the
\* listing.
C10_RowsSorted ==
    SheetWritten =>
        \A r1, r2 \in DOMAIN SheetRows : r1 < r2 => RowLeq(SheetRows[r1], SheetRows[r2])

(* The run of main over the sections. *)
Exited == pc = "exit"

CostsSheet == DictGet(writer.sheets, "Costs").df

\* C2: when a cost query raises, the failure stays inside: the section's
\* workbook is written with the cluster sheet and without a cost sheet, and
\* the process finishes with exit status 0.
C2_CostFailureContained ==
    raised = <<"get_cost_and_usage">> =>
        /\ (Exited => exit_status = 0)
        /\ writer.path \in DOMAIN files
        /\ files[writer.path].section = sec
        /\ "ClusterData" \in Range(files[writer.path].sheets)
        /\ "Costs" \notin Range(files[writer.path].sheets)

C6_NoPathCollision ==
    (Exited /\ exit_status = 0) =>
        /\ Cardinality(DOMAIN files) = Len(config)
        /\ \A k \in DOMAIN config : \E path \in DOMAIN files : files[path].section = k

\* C7 as stated: when processing a section fails, every later section of the
\* configuration is still attempted.
C7_Original ==
    (Exited /\ raised # <<>>) => Range(attempted) = DOMAIN config

\* C7 as amended: when processing a section fails (the cluster listing, a
\* metric query or the cost query raises), the exception leaves main: the
\* process ends with a non-zero status, the failing section's workbook is not
\* written and no later section is attempted.
C7_FailureEndsRun ==
    raised # <<>> =>
        /\ Exited
        /\ exit_status # 0
        /\ attempted = [k \in 1..sec |-> k]
        /\ \A path \in DOMAIN files : files[path].section < sec

C7_Witness ==
    /\ Exited
    /\ raised = <<"list_clusters">>
    /\ sec = 1
    /\ Len(config) = 2
    /\ attempted = <<1>>
    /\ files = <<>>

====
